---- MODULE Spec2Model ----
(***************************************************************************)
(* The POST /api/clip handler of backend/src/index.ts as a state machine.  *)
(*                                                                         *)
(* Several requests are in flight on one Node event loop.  Each action is  *)
(* one run-to-completion step of the handler: the synchronous prefix up to *)
(* the await, one event handler of the child process, one completion of an *)
(* asynchronous file operation.  The yt-dlp child process and the clock    *)
(* are the environment.                                                    *)
(*                                                                         *)
(* JavaScript strings are sequences of atoms (TLA+ strings); the atoms are *)
(* cut so that the needles of String.includes fall on atom boundaries,     *)
(* which makes includes a search for a contiguous subsequence.             *)
(***************************************************************************)
EXTENDS Integers, Sequences, FiniteSets, TLC

\* Bounds of the model.
MaxClock == 2
MaxErrLines == 1

Requests == {1, 2}

VARIABLES
    clock,          \* Date.now()
    cookies,        \* state of src/cookies.txt: "absent", "unreadable", "present"
    fs,             \* the uploads directory: path -> file
    pc,             \* where each request's handler is
    body,           \* req.body of each request
    timestamp,      \* const timestamp
    args,           \* ytDlpArgs passed to spawn
    spawnCount,     \* number of spawn calls made for the request
    proc,           \* state of the child process
    exitCode,       \* code passed to the 'close' handler
    processStderr,  \* let processStderr
    promise,        \* state of the awaited promise
    responses,      \* what has been written to res, in order
    seenAtClose,    \* the file existsSync/statSync saw in the 'close' handler
    sendErr         \* err passed to the res.download callback

vars == <<clock, cookies, fs, pc, body, timestamp, args, spawnCount, proc,
          exitCode, processStderr, promise, responses, seenAtClose, sendErr>>

(***************************************************************************)
(* JavaScript values of the request body                                   *)
(***************************************************************************)
Undefined == [type |-> "undefined", s |-> "", n |-> 0]
Str(x) == [type |-> "string", s |-> x, n |-> 0]
Num(k) == [type |-> "number", s |-> "", n |-> k]

\* !v
Falsy(v) ==
    \/ v.type = "undefined"
    \/ v.type = "string" /\ v.s = ""
    \/ v.type = "number" /\ v.n = 0

\* `${v}`
ToStr(v) ==
    CASE v.type = "string" -> v.s
      [] v.type = "number" -> ToString(v.n)
      [] OTHER -> "undefined"

\* The request bodies the clients send.
Bodies ==
    { [url |-> Str("https://example.com/video"), startTime |-> Str("00:00:10"), endTime |-> Str("00:00:20")],
      [url |-> Str("https://example.com/video"), startTime |-> Num(0), endTime |-> Num(20)],
      [url |-> Str("https://example.com/video"), startTime |-> Num(5), endTime |-> Num(20)],
      [url |-> Undefined, startTime |-> Str("00:00:10"), endTime |-> Str("00:00:20")],
      [url |-> Str(""), startTime |-> Num(5), endTime |-> Num(20)],
      [url |-> Str("https://example.com/video"), startTime |-> Undefined, endTime |-> Num(20)],
      [url |-> Str("https://example.com/video"), startTime |-> Str("00:00:10"), endTime |-> Str("")] }

NoBody == [url |-> Undefined, startTime |-> Undefined, endTime |-> Undefined]

(***************************************************************************)
(* Strings and files                                                       *)
(***************************************************************************)
\* hay.includes(needle)
Includes(hay, needle) ==
    \E i \in 1..(Len(hay) + 1 - Len(needle)) :
        SubSeq(hay, i, i + Len(needle) - 1) = needle

RECURSIVE Flatten(_)
Flatten(ss) == IF ss = <<>> THEN <<>> ELSE Head(ss) \o Flatten(Tail(ss))

NoFile == [exists |-> FALSE, size |-> 0, owner |-> 0]
File(r, sz) == [exists |-> TRUE, size |-> sz, owner |-> r]

\* path.join(uploadsDir, `clip-${timestamp}.mp4`)
OutputPath(ts) == <<"uploads/clip-", ToString(ts), ".mp4">>
\* outputPath + ".part"
PartPath(ts) == OutputPath(ts) \o <<".part">>

\* The paths of the requests that arrive at the instants 0 .. MaxClock - 1.
Paths ==
    {OutputPath(t) : t \in 0..(MaxClock - 1)} \cup {PartPath(t) : t \in 0..(MaxClock - 1)}

\* path.join(__dirname, "../src/cookies.txt")
cookiesFilePath == <<"/app/src/", "cookies", ".txt">>

(***************************************************************************)
(* Validation and argument construction (lines 32-91)                      *)
(***************************************************************************)
\* A validation that forgets endTime.
InvalidWithoutEndTime(b) == Falsy(b.url) \/ Falsy(b.startTime)

\* if (!url || !startTime || !endTime)
Invalid(b) == Falsy(b.url) \/ Falsy(b.startTime) \/ Falsy(b.endTime)

\* const section = `*${startTime}-${endTime}`
Section(b) == <<"*", ToStr(b.startTime), "-", ToStr(b.endTime)>>

FormatSelector ==
    <<"bestvideo[protocol=https][ext=mp4]+bestaudio[protocol=https][ext=m4a]/bestvideo[protocol=https][ext=webm]+bestaudio[protocol=https][ext=webm]/bestvideo[ext=mp4]+bestaudio[ext=m4a]/bestvideo[ext=webm]+bestaudio[ext=webm]/best">>

UserAgent ==
    <<"user-agent:Mozilla/5.0 (Windows NT 10.0; Win64; x64) AppleWebKit/537.36 (KHTML, like Gecko) Chrome/124.0.0.0 Safari/537.36">>

\* const ytDlpArgs = [...], then the push of "--cookies" when cookies.txt
\* exists and can be read.
ytDlpArgs(b, outputPath, ck) ==
    << <<ToStr(b.url)>>,
       <<"-f">>, FormatSelector,
       <<"--download-sections">>, Section(b),
       <<"-o">>, outputPath,
       <<"--no-check-certificates">>,
       <<"--no-warnings">>,
       <<"--add-header">>, <<"referer:youtube.com">>,
       <<"--add-header">>, UserAgent,
       <<"--merge-output-format">>, <<"mp4">>,
       <<"--verbose">>,
       <<"--no-playlist">>,
       <<"--extractor-retries">>, <<"3">>,
       <<"--ignore-errors">>,
       <<"--no-check-certificate">>,
       <<"--geo-bypass">> >>
    \o (IF ck = "present" THEN << <<"--", "cookies">>, cookiesFilePath >> ELSE << >>)

(***************************************************************************)
(* What yt-dlp writes to stderr                                            *)
(***************************************************************************)
\* With --verbose the tool starts by echoing its command line.
DebugLine(a) ==
    IF <<"--verbose">> \in {a[i] : i \in 1..Len(a)}
    THEN <<"[debug] Command-line config: ">> \o Flatten(a) \o <<"\n">>
    ELSE << >>

BotPhrase == <<"Sign in to confirm you're not a bot">>
BotErrLine == <<"ERROR: ">> \o BotPhrase \o <<"\n">>
CookieErrLine == <<"ERROR: ", "cookies", " are no longer valid", "\n">>
NetErrLine == <<"ERROR: ", "unable to download video data: HTTP Error 403: Forbidden", "\n">>
ErrLines == {BotErrLine, CookieErrLine, NetErrLine}

CountErr(s) == Cardinality({i \in 1..Len(s) : s[i] = "ERROR: "})

(***************************************************************************)
(* The 'close' and 'error' handlers and the catch block (lines 109-186)    *)
(***************************************************************************)
CredentialMsg ==
    <<"YouTube bot detection triggered. The ", "cookies", " file may be expired or invalid.">>
OutputMissingMsg(stderr) ==
    <<"yt-dlp indicated success, but no output file was found. Stderr: ">> \o stderr
GenericMsg(code, stderr) ==
    <<"yt-dlp failed with code ", ToString(code), ". Stderr: ">> \o stderr
SpawnErrorMsg(errMessage) == <<"Failed to start yt-dlp: ", errMessage>>

Resolve == [kind |-> "resolve", msg |-> << >>]
Reject(m) == [kind |-> "reject", msg |-> m]

\* A 'close' handler that checks existence of the output file but not its size.
CloseOutcomeNoSizeCheck(code, f, stderr) ==
    IF code = 0
    THEN IF f.exists
         THEN Resolve
         ELSE Reject(OutputMissingMsg(stderr))
    ELSE IF Includes(stderr, BotPhrase) \/ Includes(stderr, <<"cookies">>)
         THEN Reject(CredentialMsg)
         ELSE Reject(GenericMsg(code, stderr))

\* ytDlp.on("close", (code) => ...): what the handler calls, given the exit
\* code, the file at outputPath and the accumulated stderr.
CloseOutcome(code, f, stderr) ==
    IF code = 0
    THEN IF f.exists /\ f.size > 0
         THEN Resolve
         ELSE Reject(OutputMissingMsg(stderr))
    ELSE IF Includes(stderr, BotPhrase) \/ Includes(stderr, <<"cookies">>)
         THEN Reject(CredentialMsg)
         ELSE Reject(GenericMsg(code, stderr))

\* ytDlp.on("error", (err) => ...)
ErrorOutcome(errMessage) == Reject(SpawnErrorMsg(errMessage))

\* res.status(400).json({error: "url, startTime, and endTime are required"})
BadRequest ==
    [status |-> 400, error |-> <<"url, startTime, and endTime are required">>,
     details |-> "", filename |-> "", file |-> NoFile]

\* catch (error): res.status(500).json({error: errorMessage, details: ...})
ErrorResponse(msg) ==
    [status |-> 500, error |-> msg, details |-> "No additional details.",
     filename |-> "", file |-> NoFile]

\* res.download(outputPath, "clip.mp4", ...) once the file has been opened
FileResponse(f) ==
    [status |-> 200, error |-> << >>, details |-> "", filename |-> "clip.mp4", file |-> f]

(***************************************************************************)
(* State machine                                                           *)
(***************************************************************************)
Init ==
    /\ clock = 0
    /\ cookies \in {"absent", "unreadable", "present"}
    /\ fs = [p \in Paths |-> NoFile]
    /\ pc = [r \in Requests |-> "idle"]
    /\ body = [r \in Requests |-> NoBody]
    /\ timestamp = [r \in Requests |-> 0]
    /\ args = [r \in Requests |-> << >>]
    /\ spawnCount = [r \in Requests |-> 0]
    /\ proc = [r \in Requests |-> "none"]
    /\ exitCode = [r \in Requests |-> 0]
    /\ processStderr = [r \in Requests |-> << >>]
    /\ promise = [r \in Requests |-> "none"]
    /\ responses = [r \in Requests |-> << >>]
    /\ seenAtClose = [r \in Requests |-> NoFile]
    /\ sendErr = [r \in Requests |-> "none"]

outputPath(r) == OutputPath(timestamp[r])
partFilePath(r) == PartPath(timestamp[r])

\* The clock of Date.now() advances by a millisecond.
Tick ==
    /\ clock < MaxClock
    /\ clock' = clock + 1
    /\ UNCHANGED <<cookies, fs, pc, body, timestamp, args, spawnCount, proc,
                   exitCode, processStderr, promise, responses, seenAtClose, sendErr>>

\* Lines 27-109: a request arrives, before the last instant the model follows,
\* and the handler runs up to the await. Requests are numbered as they arrive.
\* launch is what spawn("yt-dlp", ...) meets: the executable starts, or it
\* cannot be launched and the child emits 'error' on a later tick.
Receive(r, b, launch) ==
    /\ pc[r] = "idle"
    /\ \A q \in Requests : q < r => pc[q] # "idle"
    /\ clock < MaxClock
    /\ body' = [body EXCEPT ![r] = b]
    /\ timestamp' = [timestamp EXCEPT ![r] = clock]
    /\ IF Invalid(b)
       THEN /\ launch = "started"
            /\ responses' = [responses EXCEPT ![r] = Append(@, BadRequest)]
            /\ pc' = [pc EXCEPT ![r] = "done"]
            /\ UNCHANGED <<args, spawnCount, proc, promise>>
       ELSE /\ args' = [args EXCEPT ![r] = ytDlpArgs(b, OutputPath(clock), cookies)]
            /\ spawnCount' = [spawnCount EXCEPT ![r] = @ + 1]
            /\ proc' = [proc EXCEPT ![r] = launch]
            /\ promise' = [promise EXCEPT ![r] = "pending"]
            /\ pc' = [pc EXCEPT ![r] = "await"]
            /\ UNCHANGED responses
    /\ UNCHANGED <<clock, cookies, fs, exitCode, processStderr, seenAtClose, sendErr>>

\* The launched tool at work. It takes the tool more than a millisecond to
\* start: whatever it does comes after the clock has moved on.
Running(r) == proc[r] = "started" /\ clock > timestamp[r]

\* Lines 97-100: ytDlp.stderr.on("data"). The tool echoes its command line
\* first, then reports errors.
StderrData(r, data) ==
    /\ Running(r)
    /\ data # << >>
    /\ \/ processStderr[r] = << >> /\ data = DebugLine(args[r])
       \/ processStderr[r] # << >> /\ data \in ErrLines
                                   /\ CountErr(processStderr[r]) < MaxErrLines
    /\ processStderr' = [processStderr EXCEPT ![r] = @ \o data]
    /\ UNCHANGED <<clock, cookies, fs, pc, body, timestamp, args, spawnCount, proc,
                   exitCode, promise, responses, seenAtClose, sendErr>>

\* The tool downloads into <output>.part ...
ToolWritePart(r, sz) ==
    /\ Running(r)
    /\ fs[partFilePath(r)] # File(r, sz)
    /\ fs' = [fs EXCEPT ![partFilePath(r)] = File(r, sz)]
    /\ UNCHANGED <<clock, cookies, pc, body, timestamp, args, spawnCount, proc,
                   exitCode, processStderr, promise, responses, seenAtClose, sendErr>>

\* ... and renames it to the path given with -o when the download is over.
ToolRename(r) ==
    /\ Running(r)
    /\ fs[partFilePath(r)].exists
    /\ fs' = [fs EXCEPT ![outputPath(r)] = fs[partFilePath(r)],
                        ![partFilePath(r)] = NoFile]
    /\ UNCHANGED <<clock, cookies, pc, body, timestamp, args, spawnCount, proc,
                   exitCode, processStderr, promise, responses, seenAtClose, sendErr>>

\* A promise settles once: resolve and reject of a settled promise do nothing.
\* A rejection resumes the handler in the catch block (lines 162-186), a
\* resolution at res.download (line 141).
Settle(r, outcome) ==
    IF promise[r] = "pending"
    THEN IF outcome.kind = "resolve"
         THEN /\ promise' = [promise EXCEPT ![r] = "resolved"]
              /\ pc' = [pc EXCEPT ![r] = "download"]
              /\ UNCHANGED responses
         ELSE /\ promise' = [promise EXCEPT ![r] = "rejected"]
              /\ pc' = [pc EXCEPT ![r] = "done"]
              /\ responses' = [responses EXCEPT ![r] = Append(@, ErrorResponse(outcome.msg))]
    ELSE UNCHANGED <<promise, pc, responses>>

\* err.message of the 'error' event of a launch that failed.
SpawnErrno == "spawn yt-dlp ENOENT"

\* An 'error' handler that logs and does not reject.
ErrorEventLogOnly(r) ==
    /\ proc[r] = "ENOENT"
    /\ proc' = [proc EXCEPT ![r] = "errored"]
    /\ UNCHANGED <<clock, cookies, fs, pc, body, timestamp, args, spawnCount,
                   exitCode, processStderr, promise, responses, seenAtClose, sendErr>>

\* Lines 132-135: the child could not be launched.
ErrorEvent(r) ==
    /\ proc[r] = "ENOENT"
    /\ proc' = [proc EXCEPT ![r] = "errored"]
    /\ Settle(r, ErrorOutcome(SpawnErrno))
    /\ UNCHANGED <<clock, cookies, fs, body, timestamp, args, spawnCount,
                   exitCode, processStderr, seenAtClose, sendErr>>

\* The exit codes 'close' can carry: those of the tool, or the negative errno
\* of the failed launch.
CloseCodes(r) == IF proc[r] = "started" THEN {0, 1} ELSE {-2}

\* Lines 110-130: the child's stdio has closed.
Close(r, code) ==
    /\ Running(r) \/ proc[r] = "errored"
    /\ code \in CloseCodes(r)
    /\ proc' = [proc EXCEPT ![r] = "closed"]
    /\ exitCode' = [exitCode EXCEPT ![r] = code]
    /\ seenAtClose' = [seenAtClose EXCEPT ![r] = fs[outputPath(r)]]
    /\ Settle(r, CloseOutcome(code, fs[outputPath(r)], processStderr[r]))
    /\ UNCHANGED <<clock, cookies, fs, body, timestamp, args, spawnCount,
                   processStderr, sendErr>>

\* Lines 146-160, up to the first await of the cleanup: where the callback
\* of res.download stops, given the directory it finds.
CleanupEntry(dir, r) ==
    IF dir[outputPath(r)].exists THEN "unlinkOutput"
    ELSE IF dir[partFilePath(r)].exists THEN "unlinkPart"
    ELSE "done"

\* Line 141: res.download opens the file. When it is there the headers go
\* out and the stream starts; when it is not the callback gets the error and
\* nothing is written to res.
DownloadOpen(r) ==
    /\ pc[r] = "download"
    /\ IF fs[outputPath(r)].exists
       THEN /\ responses' = [responses EXCEPT ![r] = Append(@, FileResponse(fs[outputPath(r)]))]
            /\ pc' = [pc EXCEPT ![r] = "streaming"]
            /\ UNCHANGED sendErr
       ELSE /\ sendErr' = [sendErr EXCEPT ![r] = "ENOENT"]
            /\ pc' = [pc EXCEPT ![r] = CleanupEntry(fs, r)]
            /\ UNCHANGED responses
    /\ UNCHANGED <<clock, cookies, fs, body, timestamp, args, spawnCount, proc,
                   exitCode, processStderr, promise, seenAtClose>>

\* A res.download callback that answers 500 when it is passed an error.
StreamEndSurfacing(r, err) ==
    /\ pc[r] = "streaming"
    /\ sendErr' = [sendErr EXCEPT ![r] = err]
    /\ pc' = [pc EXCEPT ![r] = CleanupEntry(fs, r)]
    /\ responses' = [responses EXCEPT ![r] =
                        IF err = "none" THEN @ ELSE Append(@, ErrorResponse(<<err>>))]
    /\ UNCHANGED <<clock, cookies, fs, body, timestamp, args, spawnCount, proc,
                   exitCode, processStderr, promise, seenAtClose>>

\* Lines 141-150: the stream ends, completely or with a transport error, and
\* the callback runs: it logs err and starts the cleanup.
StreamEnd(r, err) ==
    /\ pc[r] = "streaming"
    /\ sendErr' = [sendErr EXCEPT ![r] = err]
    /\ pc' = [pc EXCEPT ![r] = CleanupEntry(fs, r)]
    /\ UNCHANGED <<clock, cookies, fs, body, timestamp, args, spawnCount, proc,
                   exitCode, processStderr, promise, responses, seenAtClose>>

\* Lines 149-155: await unlinkAsync(outputPath) completes. When the file has
\* gone in the meantime unlink fails and the catch of the cleanup ends it.
UnlinkOutput(r) ==
    /\ pc[r] = "unlinkOutput"
    /\ IF fs[outputPath(r)].exists
       THEN /\ fs' = [fs EXCEPT ![outputPath(r)] = NoFile]
            /\ pc' = [pc EXCEPT ![r] =
                        IF fs[partFilePath(r)].exists THEN "unlinkPart" ELSE "done"]
       ELSE /\ pc' = [pc EXCEPT ![r] = "done"]
            /\ UNCHANGED fs
    /\ UNCHANGED <<clock, cookies, body, timestamp, args, spawnCount, proc,
                   exitCode, processStderr, promise, responses, seenAtClose, sendErr>>

\* Lines 153-160: await unlinkAsync(partFilePath) completes.
UnlinkPart(r) ==
    /\ pc[r] = "unlinkPart"
    /\ fs' = [fs EXCEPT ![partFilePath(r)] = NoFile]
    /\ pc' = [pc EXCEPT ![r] = "done"]
    /\ UNCHANGED <<clock, cookies, body, timestamp, args, spawnCount, proc,
                   exitCode, processStderr, promise, responses, seenAtClose, sendErr>>

\* One step of the handler of request r or of its child process. bodies are
\* the bodies the client may send and lines the error lines the tool may
\* write.
RequestStep(r, bodies, lines) ==
    \/ \E b \in bodies, launch \in {"started", "ENOENT"} : Receive(r, b, launch)
    \/ \E data \in lines \cup {DebugLine(args[r])} : StderrData(r, data)
    \/ \E sz \in {0, 1} : ToolWritePart(r, sz)
    \/ ToolRename(r)
    \/ ErrorEvent(r)
    \/ \E code \in {-2, 0, 1} : Close(r, code)
    \/ DownloadOpen(r)
    \/ \E err \in {"none", "ECONNABORTED"} : StreamEnd(r, err)
    \/ UnlinkOutput(r)
    \/ UnlinkPart(r)

\* One request at a time, with every body and every report of the tool.
Next ==
    \/ Tick
    \/ RequestStep(1, Bodies, ErrLines)

Spec == Init /\ [][Next]_vars

\* The bodies and tool reports of the concurrent specification.
ConcurrentBodies ==
    { [url |-> Str("https://example.com/video"), startTime |-> Str("00:00:10"), endTime |-> Str("00:00:20")],
      [url |-> Str("https://example.com/video"), startTime |-> Str("00:00:10"), endTime |-> Str("")] }

\* Requests in flight together, interleaving at the await points.
NextConcurrent ==
    \/ Tick
    \/ \E r \in Requests : RequestStep(r, ConcurrentBodies, {NetErrLine})

InitConcurrent == Init /\ cookies = "present"

SpecConcurrent == InitConcurrent /\ [][NextConcurrent]_vars


(***************************************************************************)
(* Properties                                                              *)
(***************************************************************************)
\* A field of the body is missing or is the empty string.
MissingOrEmpty(b) ==
    \E v \in {b.url, b.startTime, b.endTime} : v = Undefined \/ v = Str("")

\* Every field of the body is a non-empty string or a number.
Accepted(b) ==
    \A v \in {b.url, b.startTime, b.endTime} :
        \/ v.type = "string" /\ v.s # ""
        \/ v.type = "number"

HasStatus(r, codes) ==
    \E i \in 1..Len(responses[r]) : responses[r][i].status \in codes

Usable(f) == f.exists /\ f.size > 0

\* stderr carries an ERROR line about the bot check or about the cookies.
ReportsCredentialProblem(stderr) ==
    \/ Includes(stderr, <<"ERROR: ">> \o BotPhrase)
    \/ Includes(stderr, <<"ERROR: ", "cookies">>)

\* C1: a request whose url, startTime or endTime is missing or empty is
\* answered 400 with the error body, and nothing is spawned for it.
C1_MissingFieldRejected ==
    \A r \in Requests :
        pc[r] # "idle" /\ MissingOrEmpty(body[r]) =>
            /\ responses[r] = <<BadRequest>>
            /\ spawnCount[r] = 0
            /\ proc[r] = "none"

C1_Witness ==
    \E r \in Requests :
        /\ pc[r] = "done"
        /\ body[r].endTime = Str("")
        /\ ~Falsy(body[r].url) /\ ~Falsy(body[r].startTime)
        /\ responses[r] = <<BadRequest>>

\* C2: whatever the child's events and the outcome of the send, a request
\* is never answered with both a file stream and an error body.
C2_StreamOrErrorNeverBoth ==
    \A r \in Requests : ~(HasStatus(r, {200}) /\ HasStatus(r, {400, 500}))

C2_Witness ==
    \E r \in Requests :
        /\ pc[r] = "done"
        /\ processStderr[r] # << >>
        /\ sendErr[r] = "ECONNABORTED"
        /\ HasStatus(r, {200})

\* C3: when the tool exits 0 and a non-empty file is at the output path, the
\* file stays until the send is over, the client is sent that file, and the
\* file is gone when the handler has finished.
C3_Claim ==
    \A r \in Requests :
        proc[r] = "closed" /\ exitCode[r] = 0 /\ Usable(seenAtClose[r]) =>
            /\ pc[r] \in {"download", "streaming"} => fs[outputPath(r)].exists
            /\ pc[r] \in {"streaming", "unlinkOutput", "unlinkPart", "done"} =>
                   responses[r] = <<FileResponse(seenAtClose[r])>>
            /\ pc[r] = "done" => ~fs[outputPath(r)].exists

\* C4: when the tool exits 0 and the output file is absent or empty, the
\* answer is one 500 whose message embeds the accumulated stderr, and no file
\* is streamed.
C4_NoOutputIs500 ==
    \A r \in Requests :
        proc[r] = "closed" /\ exitCode[r] = 0 /\ ~Usable(seenAtClose[r]) =>
            /\ Len(responses[r]) = 1
            /\ responses[r][1].status = 500
            /\ responses[r][1].error = OutputMissingMsg(processStderr[r])
            /\ Includes(responses[r][1].error, processStderr[r])
            /\ responses[r][1].file = NoFile
            /\ pc[r] = "done"

C4_Witness ==
    \E r \in Requests :
        /\ proc[r] = "closed" /\ exitCode[r] = 0
        /\ seenAtClose[r].exists /\ seenAtClose[r].size = 0
        /\ Includes(processStderr[r], NetErrLine)
        /\ HasStatus(r, {500})

\* C5: once a request that spawned the tool has been answered and its
\* handler has finished, neither its output file nor its .part file remains.
C5_Claim ==
    \A r \in Requests :
        pc[r] = "done" /\ spawnCount[r] > 0 /\ responses[r] # << >> =>
            /\ ~fs[outputPath(r)].exists
            /\ ~fs[partFilePath(r)].exists

\* C6: when the tool exits non-zero the 500 carries the credential message
\* exactly when stderr reports a bot check or a cookie problem, and the
\* generic message with the code and stderr otherwise.
C6_Claim ==
    \A r \in Requests :
        proc[r] = "closed" /\ exitCode[r] > 0 =>
            /\ Len(responses[r]) = 1
            /\ responses[r][1].status = 500
            /\ responses[r][1].error =
                   IF ReportsCredentialProblem(processStderr[r])
                   THEN CredentialMsg
                   ELSE GenericMsg(exitCode[r], processStderr[r])
            /\ CredentialMsg # GenericMsg(exitCode[r], processStderr[r])

\* C7: two requests never share an output path; a request verifies and
\* streams only the file its own tool wrote, and a file it has verified is
\* still there when it comes to send it.
C7_Claim ==
    /\ \A r1, r2 \in Requests :
           r1 # r2 /\ spawnCount[r1] > 0 /\ spawnCount[r2] > 0 =>
               outputPath(r1) # outputPath(r2)
    /\ \A r \in Requests :
           /\ seenAtClose[r].exists => seenAtClose[r].owner = r
           /\ \A i \in 1..Len(responses[r]) :
                  responses[r][i].status = 200 => responses[r][i].file.owner = r
           /\ pc[r] = "download" => fs[outputPath(r)].exists

\* C8: when the executable cannot be launched, 'error' and a later 'close'
\* with a non-zero code lead to exactly one 500, whose message is that of the
\* spawn error, and the awaited promise is settled by the rejection of 'error'.
C8_SpawnErrorReported ==
    \A r \in Requests :
        proc[r] = "errored" \/ (proc[r] = "closed" /\ exitCode[r] < 0) =>
            /\ responses[r] = <<ErrorResponse(SpawnErrorMsg(SpawnErrno))>>
            /\ promise[r] = "rejected"
            /\ pc[r] = "done"

C8_Witness ==
    \E r \in Requests :
        /\ proc[r] = "closed" /\ exitCode[r] = -2
        /\ Len(responses[r]) = 1
        /\ Head(responses[r][1].error) = "Failed to start yt-dlp: "

\* C9: a validated request whose child has terminated and whose handler has
\* nothing left to do has been sent a response.
C9_Claim ==
    \A r \in Requests :
        spawnCount[r] > 0 /\ proc[r] \in {"closed", "errored"} /\ pc[r] = "done" =>
            responses[r] # << >>

\* C10: only a missing or empty field is answered 400; a body whose fields
\* are non-empty strings or numbers is spawned with the section
\* *<startTime>-<endTime>.
C10_Claim ==
    \A r \in Requests :
        pc[r] # "idle" =>
            /\ HasStatus(r, {400}) => MissingOrEmpty(body[r])
            /\ Accepted(body[r]) =>
                   /\ spawnCount[r] = 1
                   /\ args[r][5] = <<"*", ToStr(body[r].startTime), "-", ToStr(body[r].endTime)>>

====
